---- MODULE Spec2Model ----
(***************************************************************************)
(* Model of the connection-acceptance and lifecycle layer of rust-server:  *)
(* the accept loop of run_server with its semaphore and backoff, the       *)
(* per-connection session tasks it spawns, main's select! between the      *)
(* server and ctrl-c, the Shutdown object on its broadcast channel, and    *)
(* the request validator and parser a session runs on the bytes it reads.  *)
(*                                                                         *)
(* Session tasks are anonymous and identical, so the set of live tasks is  *)
(* kept as a bag of their local states.  A task that ends is removed from  *)
(* the bag; what it held is given back in the same step, as Rust's drop    *)
(* does.                                                                   *)
(*                                                                         *)
(* tokio primitives are modelled by their documented behaviour:            *)
(*  - Semaphore: a counter of free permits; an OwnedSemaphorePermit gives  *)
(*    its permit back when dropped, also when its task is cancelled or     *)
(*    unwinds from a panic.                                                *)
(*  - broadcast channel: the sender appends to a log; every receiver has   *)
(*    its own cursor, set by subscribe() to the end of the log, so that it *)
(*    sees only values sent afterwards; send fails when no receiver        *)
(*    exists; a receiver more than the buffer behind gets Lagged.          *)
(*  - select!: the branches are polled inside main's task; when one        *)
(*    completes the other future is dropped before the handler runs.       *)
(*  - the runtime: when main returns the runtime is dropped and every      *)
(*    spawned task is dropped at the await it is suspended in; a panic of  *)
(*    a spawned task ends that task only; a panic of main ends the process *)
(*    with a failure status, a return of Ok(()) with success.              *)
(*                                                                         *)
(* Requests are byte strings, written as strings; str::lines,              *)
(* split_whitespace, starts_with and contains work on their characters.    *)
(*                                                                         *)
(* A Response is a record with its header list; to_bytes makes the text    *)
(* that is written, status line, headers, empty line and body, and the     *)
(* properties of the bytes are stated on that text.  The gzip member of a  *)
(* body is a text of its own, 20 bytes longer than the body.               *)
(***************************************************************************)
EXTENDS Bags, FiniteSets, Integers, Sequences, TLC

VARIABLES
    connection_limit,   \* free permits of Listener.connection_limit
    permit,             \* permits held by run_server's local `permit` (0 or 1)
    accPc,              \* position of the accept loop
    backoff,            \* local `backoff` of Listener::accept
    waits,              \* the sleeps made so far by the current accept() call
    clients,            \* connections the environment has still to make
    sessions,           \* bag of the local states of the live session tasks
    mainPc,             \* position of main
    truncated,          \* a task was dropped while suspended in write_all
    is_shutdown,        \* Shutdown.is_shutdown
    chan,               \* every Message sent on the broadcast channel, in order
    panicked,           \* initiate_shutdown's unwrap() panicked
    rxs,                \* cursors of the receivers held outside session tasks
    got,                \* last result of recv() of each such receiver
    after_retry,        \* the last accept() call that returned Ok had failed first
    log,                \* what the last step wrote to the error log
    exit_status,        \* how the process ended, "running" until then
    buffer,             \* the bytes given to the validator
    overflow_checks,    \* the build panics on integer overflow (else wraps)
    result,             \* what the validator returned
    response,           \* the Response a handler is building
    emitted,            \* the bytes to_bytes made of it
    self_error,         \* the ErrorType on the left of ==
    other_error,        \* the ErrorType on the right of ==
    equal               \* what == returned for them

vars == <<connection_limit, permit, accPc, backoff, waits, clients, sessions,
          mainPc, truncated, is_shutdown, chan, panicked, rxs, got,
          after_retry, log, exit_status, buffer, overflow_checks, result,
          response, emitted, self_error, other_error, equal>>

serverVars == <<connection_limit, permit, accPc, backoff, waits, clients,
                sessions, mainPc, truncated, after_retry, log, exit_status>>

validatorVars == <<buffer, overflow_checks, result>>

codecVars == <<response, emitted>>

errorVars == <<self_error, other_error, equal>>

----------------------------------------------------------------------------
(* Program constants *)

MAX_PERMITS == 5

INITIAL_BACKOFF == 200

BACKOFF_CEILING == 6000

CHANNEL_CAPACITY == 10

(* Bounds of the model *)

MaxClients == 6

MaxReceivers == 2

MaxSends == 3

FairClients == 1

----------------------------------------------------------------------------
(* The broadcast channel of main and the Shutdown object *)

Message == {"ServerRunning", "Terminate"}

RECURSIVE next_power_of_two(_, _)
next_power_of_two(n, p) == IF p >= n THEN p ELSE next_power_of_two(n, 2 * p)

\* broadcast::channel(10) rounds its buffer up to a power of two
BufferSlots == next_power_of_two(CHANNEL_CAPACITY, 1)

\* Sender::subscribe: the new receiver starts at the end of the log
subscribe == Len(chan)

\* A receiver that never shows a pending message
is_empty_always(cur) == cur = cur

\* Receiver::is_empty, for a receiver whose cursor is cur
is_empty(cur) == Len(chan) = cur

Lagging(cur) == Len(chan) - cur > BufferSlots

\* Receiver::recv on a non-empty receiver: the value returned ...
recv(cur) == IF Lagging(cur) THEN "Lagged" ELSE chan[cur + 1]

\* ... and the receiver's cursor afterwards
recv_cursor(cur) == IF Lagging(cur) THEN Len(chan) - BufferSlots ELSE cur + 1

\* The receiver made by broadcast::channel (main's _rx, the test's rx)
MainRx == 1

\* Names for the receivers held outside session tasks
ReceiverIds == MainRx .. (MainRx + MaxReceivers)

\* Receivers in existence: those held outside tasks and one per session task
\* The receivers of the channel without those held outside session tasks
ReceiverCount_of_sessions == BagCardinality(sessions)

ReceiverCount == Cardinality(DOMAIN rxs) + BagCardinality(sessions)

\* Shutdown::new
Shutdown_new == is_shutdown = FALSE

\* initiate_shutdown sending the other Message
initiate_shutdown_sends_running ==
    /\ is_shutdown' = TRUE
    /\ IF ReceiverCount = 0
         THEN panicked' = TRUE /\ chan' = chan
         ELSE panicked' = panicked /\ chan' = Append(chan, "ServerRunning")

\* initiate_shutdown flipping the flag instead of setting it
initiate_shutdown_toggles ==
    /\ is_shutdown' = ~is_shutdown
    /\ IF ReceiverCount = 0
         THEN panicked' = TRUE /\ chan' = chan
         ELSE panicked' = panicked /\ chan' = Append(chan, "Terminate")

\* Shutdown::initiate_shutdown: set the flag, then send(Terminate).unwrap()
initiate_shutdown ==
    /\ is_shutdown' = TRUE
    /\ IF ReceiverCount = 0
         THEN panicked' = TRUE /\ chan' = chan
         ELSE panicked' = panicked /\ chan' = Append(chan, "Terminate")

----------------------------------------------------------------------------
(* Byte strings.  A buffer is a string whose characters stand for bytes;   *)
(* the character X80 stands for the byte 0x80, which no UTF-8 text holds,  *)
(* and the character X00 for the null byte.                                *)

X80 == "~"

X00 == "@"

\* The character of s at position i
char(s, i) == SubSeq(s, i, i)

\* str::starts_with
starts_with(s, p) == Len(s) >= Len(p) /\ SubSeq(s, 1, Len(p)) = p

\* str::ends_with
ends_with(s, p) == Len(s) >= Len(p) /\ SubSeq(s, Len(s) - Len(p) + 1, Len(s)) = p

\* str::contains
contains(s, p) ==
    \E i \in 1 .. (Len(s) - Len(p) + 1) : SubSeq(s, i, i + Len(p) - 1) = p

\* String::from_utf8(..).is_ok()
from_utf8(b) == ~contains(b, X80)

RECURSIVE find(_, _, _)
\* The first position from p on of s holding a character of the set cs, or
\* Len(s) + 1
find(s, cs, p) ==
    IF p > Len(s) \/ char(s, p) \in cs THEN p ELSE find(s, cs, p + 1)

RECURSIVE skip(_, _, _)
\* The first position from p on of s holding a character outside cs, or
\* Len(s) + 1
skip(s, cs, p) ==
    IF p > Len(s) \/ char(s, p) \notin cs THEN p ELSE skip(s, cs, p + 1)

\* A line without the \r that ends it
strip_cr(l) == IF ends_with(l, "\r") THEN SubSeq(l, 1, Len(l) - 1) ELSE l

RECURSIVE rfind(_, _, _)
\* The last position up to p of s holding a character of the set cs, or 0
rfind(s, cs, p) ==
    IF p < 1 \/ char(s, p) \in cs THEN p ELSE rfind(s, cs, p - 1)

\* A line without the line feed and the carriage return that end it
strip_eol(l) ==
    strip_cr(IF ends_with(l, "\n") THEN SubSeq(l, 1, Len(l) - 1) ELSE l)

RECURSIVE lines(_)
\* str::lines: the pieces between line feeds, each without its final
\* carriage return; what follows the last line feed is a line only when it
\* is not empty.  The text is cut at a line feed near its middle and the
\* lines of the two halves are put together.
lines(s) ==
    IF s = "" THEN <<>>
    ELSE LET mid == (Len(s) + 1) \div 2
             e == find(s, {"\n"}, mid)
             b == rfind(s, {"\n"}, mid - 1)
         IN IF e < Len(s)
              THEN lines(SubSeq(s, 1, e)) \o lines(SubSeq(s, e + 1, Len(s)))
            ELSE IF b > 0
              THEN lines(SubSeq(s, 1, b)) \o <<strip_eol(SubSeq(s, b + 1, Len(s)))>>
            ELSE <<strip_eol(s)>>

\* char::is_whitespace, for the characters of the model
WhiteSpace == {" ", "\t", "\n", "\r", "\f"}

RECURSIVE words_from(_, _)
words_from(s, p) ==
    LET b == skip(s, WhiteSpace, p)
        e == find(s, WhiteSpace, b)
    IN IF b > Len(s) THEN <<>>
       ELSE <<SubSeq(s, b, e - 1)>> \o words_from(s, e)

\* str::split_whitespace
split_whitespace(s) == words_from(s, 1)

----------------------------------------------------------------------------
(* request_validation: the validator *)

Ok == [type |-> "Ok", msg |-> ""]

BadRequest(msg) == [type |-> "BadRequest", msg |-> msg]

Panic(msg) == [type |-> "panic", msg |-> msg]

\* char::is_control, for the characters of the model
ControlChars == {X00, "\t", "\n", "\r", "\f"}

\* forbidden_characters, but for the backquote, which a string of this
\* module cannot hold
forbidden_characters == {"<", ">", "{", "}", "|", "\\", "^", "[", "]", " ", "%"}

forbidden_words ==
    {"rm", "sh", "bash", "python", "perl", "exec", "delete", "drop", "cmd",
     "script", ";--", "' OR '", "&&"}

\* validate_uri without its test for ".."
validate_uri_no_traversal(uri) ==
    IF \/ uri = ""
       \/ starts_with(uri, "http://")
       \/ ~starts_with(uri, "/")
       \/ contains(uri, X00)
      THEN BadRequest("Invalid uri: " \o uri)
    ELSE IF \E i \in 1 .. Len(uri) : char(uri, i) \in ControlChars
      THEN BadRequest("Invalid uri: " \o uri)
    ELSE IF \E i \in 1 .. Len(uri) : char(uri, i) \in forbidden_characters
      THEN BadRequest("Invalid uri: " \o uri)
    ELSE IF \E w \in forbidden_words : contains(uri, w)
      THEN BadRequest("Invalid uri: " \o uri)
    ELSE Ok

\* validate_uri
validate_uri(uri) ==
    IF \/ uri = ""
       \/ contains(uri, "..")
       \/ starts_with(uri, "http://")
       \/ ~starts_with(uri, "/")
       \/ contains(uri, X00)
      THEN BadRequest("Invalid uri: " \o uri)
    ELSE IF \E i \in 1 .. Len(uri) : char(uri, i) \in ControlChars
      THEN BadRequest("Invalid uri: " \o uri)
    ELSE IF \E i \in 1 .. Len(uri) : char(uri, i) \in forbidden_characters
      THEN BadRequest("Invalid uri: " \o uri)
    ELSE IF \E w \in forbidden_words : contains(uri, w)
      THEN BadRequest("Invalid uri: " \o uri)
    ELSE Ok

\* The methods request_line_validation lets through
ValidatorMethods == {"GET", "POST", "PUT", "DELETE"}

\* The methods of HttpMethod, each with its handler in handle_response
HttpMethods == {"GET", "POST", "PUT", "PATCH", "DELETE"}

\* The method test of request_line_validation with PATCH let through too
method_allowed_five(method) == method \in HttpMethods

\* The method test of request_line_validation
method_allowed(method) == method \in ValidatorMethods

Protocols == {"HTTP/1.1", "HTTP/1.0", "HTTP/2", "HTTP/3"}

\* request_line_validation
request_line_validation(request_line) ==
    LET request_line_parts == split_whitespace(request_line)
        method == request_line_parts[1]
        uri == request_line_parts[2]
        protocol == request_line_parts[3]
    IN IF Len(request_line_parts) # 3 THEN BadRequest("Invalid request line")
       ELSE IF ~method_allowed(method) THEN BadRequest("Invalid request method")
       ELSE IF ~starts_with(uri, "/") THEN BadRequest("Invalid request uri")
       ELSE IF validate_uri(uri) # Ok THEN validate_uri(uri)
       ELSE IF protocol \notin Protocols THEN BadRequest("Invalid request protocol")
       ELSE Ok

\* The largest value of host_count: u8
U8_MAX == 255

\* The lines validate_headers looks at: those before the first empty one
header_lines(ls) ==
    LET empty == {k \in 1 .. Len(ls) : ls[k] = ""}
        stop == IF empty = {} THEN Len(ls) + 1
                ELSE CHOOSE k \in empty : \A j \in empty : k <= j
    IN SubSeq(ls, 1, stop - 1)

\* The lines among ls for which host_count += 1 is executed
host_lines(ls) ==
    Cardinality({k \in 1 .. Len(header_lines(ls)) : starts_with(ls[k], "Host:")})

\* host_lines counting every line of the iterator, with no break at the
\* empty line
host_lines_no_break(ls) ==
    Cardinality({k \in 1 .. Len(ls) : starts_with(ls[k], "Host:")})

\* validate_headers on the lines ls; host_count += 1 beyond 255 panics when
\* the build checks overflow (checked) and wraps around when it does not
validate_headers(ls, checked) ==
    LET n == host_lines(ls)
        host_count == n % (U8_MAX + 1)
    IN IF n > U8_MAX /\ checked
         THEN Panic("attempt to add with overflow")
       ELSE IF host_count # 1
         THEN BadRequest("Invalid host count: " \o ToString(host_count))
       ELSE Ok

\* check_overflow: the slice of the last four bytes panics on a shorter
\* buffer
\* check_overflow looking at the last two bytes only
check_overflow_last_two(data) ==
    IF Len(data) < 4 THEN Panic("slice index out of range")
    ELSE IF SubSeq(data, Len(data) - 1, Len(data)) # "\r\n"
      THEN BadRequest("Request overflow")
    ELSE Ok

check_overflow(data) ==
    IF Len(data) < 4 THEN Panic("slice index out of range")
    ELSE IF SubSeq(data, Len(data) - 3, Len(data)) # "\r\n\r\n"
      THEN BadRequest("Request overflow")
    ELSE Ok

\* handle_request with validate_headers ahead of request_line_validation
handle_request_headers_first(b, checked) ==
    IF ~from_utf8(b) THEN BadRequest("Invalid UTF-8 request")
    ELSE LET request == lines(b)
             line == request_line_validation(Head(request))
             headers == validate_headers(Tail(request), checked)
         IN IF request = <<>> THEN BadRequest("Missing request line")
            ELSE IF headers # Ok THEN headers
            ELSE IF line # Ok THEN line
            ELSE check_overflow(b)

\* handle_request with check_overflow ahead of the checks of the lines
handle_request_overflow_first(b, checked) ==
    IF ~from_utf8(b) THEN BadRequest("Invalid UTF-8 request")
    ELSE LET request == lines(b)
             line == request_line_validation(Head(request))
             headers == validate_headers(Tail(request), checked)
             overflow == check_overflow(b)
         IN IF overflow # Ok THEN overflow
            ELSE IF request = <<>> THEN BadRequest("Missing request line")
            ELSE IF line # Ok THEN line
            ELSE headers

\* handle_request in a build with (checked) or without overflow checks:
\* the first Err (or panic) of from_utf8, lines().next(),
\* request_line_validation, validate_headers on the other lines, and
\* check_overflow; Ok when there is none
handle_request(b, checked) ==
    IF ~from_utf8(b) THEN BadRequest("Invalid UTF-8 request")
    ELSE LET request == lines(b)
             line == request_line_validation(Head(request))
             headers == validate_headers(Tail(request), checked)
         IN IF request = <<>> THEN BadRequest("Missing request line")
            ELSE IF line # Ok THEN line
            ELSE IF headers # Ok THEN headers
            ELSE check_overflow(b)

----------------------------------------------------------------------------
(* error: ErrorType and its equality *)

ErrorVariants ==
    {"SocketError", "ReadError", "WriteError", "BadRequest", "NotFound",
     "InternalServerError", "ProtocolError", "ConnectionError"}

NoError == [type |-> "none", msg |-> ""]

\* No == has been called
ErrorIdle ==
    /\ self_error = NoError
    /\ other_error = NoError
    /\ equal = "none"

\* PartialEq for ErrorType: the match on self, then on other
ErrorType_eq(self, other) ==
    CASE self.type = "SocketError" -> other.type = "SocketError"
      [] self.type = "ReadError" -> other.type = "ReadError"
      [] self.type = "WriteError" -> other.type = "WriteError"
      [] self.type = "BadRequest" -> other.type = "BadRequest"
      [] self.type = "NotFound" -> other.type = "NotFound"
      [] self.type = "InternalServerError" -> other.type = "InternalServerError"
      [] self.type = "ProtocolError" -> other.type = "InternalServerError"
      [] self.type = "ConnectionError" -> other.type = "InternalServerError"

----------------------------------------------------------------------------
(* request: the parser, and the routes of api *)

Lower == "abcdefghijklmnopqrstuvwxyz"

Upper == "ABCDEFGHIJKLMNOPQRSTUVWXYZ"

\* char::to_uppercase, for the characters of the model
upper_char(c) ==
    IF \E i \in 1 .. Len(Lower) : char(Lower, i) = c
      THEN char(Upper, CHOOSE i \in 1 .. Len(Lower) : char(Lower, i) = c)
      ELSE c

RECURSIVE to_uppercase(_)
\* str::to_uppercase
to_uppercase(s) ==
    IF s = "" THEN ""
    ELSE upper_char(char(s, 1)) \o to_uppercase(SubSeq(s, 2, Len(s)))

\* HttpMethod::new
HttpMethod_new(method) ==
    IF contains(to_uppercase(method), "GET") THEN "GET"
    ELSE IF contains(to_uppercase(method), "POST") THEN "POST"
    ELSE IF contains(to_uppercase(method), "PUT") THEN "PUT"
    ELSE IF contains(to_uppercase(method), "PATCH") THEN "PATCH"
    ELSE "DELETE"

\* The key words of the Request::new of connection
key_words == <<"Host", "User-Agent", "Accept", "Encoding">>

RECURSIVE allow_listed(_)
\* The Request::new of connection: a header line is pushed once for each
\* key word it contains
allow_listed(hs) ==
    IF hs = <<>> THEN <<>>
    ELSE [i \in 1 .. Cardinality({w \in 1 .. Len(key_words) :
                                    contains(Head(hs), key_words[w])})
            |-> Head(hs)] \o allow_listed(Tail(hs))

\* The headers of the Request::new of connection
headers_of_allow_listed(request) == allow_listed(header_lines(Tail(request)))

\* The headers of Request::new: the lines after the first that are not
\* empty and come before the first empty one
headers_of(request) == header_lines(Tail(request))

\* Request::new: unwrap of from_utf8, the three-line check, the indexing of
\* the words of the first line
Request_new(b) ==
    IF ~from_utf8(b)
      THEN Panic("unwrap on an Err value")
    ELSE LET request == lines(b)
             words == split_whitespace(request[1])
         IN IF Len(request) < 3
              THEN [type |-> "ConnectionError", msg |-> "Invalid request"]
            ELSE IF Len(words) < 2
              THEN Panic("index out of bounds")
            ELSE [type |-> "Request", msg |-> "",
                  method |-> HttpMethod_new(words[1]), uri |-> words[2],
                  headers |-> headers_of(request)]

\* HttpCode as the number it is displayed with
HttpCode ==
    [Ok |-> 200, Created |-> 201, BadRequest |-> 400, Unauthorized |-> 401,
     NotFound |-> 404, MethodNotAllowed |-> 405, RequestTimeout |-> 408,
     Teapot |-> 418, InternalServerError |-> 500]

\* handle_get: the teapot, else a page with the code of Response::default
handle_get(request) ==
    IF (\E i \in 1 .. Len(request.headers) : request.headers[i] = "Brew")
          \/ request.uri = "/coffee"
      THEN {HttpCode.Teapot}
      ELSE {HttpCode.Ok}

\* handle_post: the code depends on the body and on the users file for
\* /signup and /login, and is BadRequest for the other uris
handle_post(request) ==
    IF request.uri \in {"/signup", "/login"}
      THEN {HttpCode.Ok, HttpCode.BadRequest, HttpCode.InternalServerError}
      ELSE {HttpCode.BadRequest}

\* handle_delete: the code depends on the body and on the cookie
handle_delete(request) == {HttpCode.Ok, HttpCode.BadRequest}

\* handle_response: the codes the Response returned for request may have
handle_response(request) ==
    CASE request.method = "GET" -> handle_get(request)
      [] request.method = "POST" -> handle_post(request)
      [] request.method = "PUT" -> {HttpCode.MethodNotAllowed}
      [] request.method = "PATCH" -> {HttpCode.MethodNotAllowed}
      [] request.method = "DELETE" -> handle_delete(request)

----------------------------------------------------------------------------
(* request: Response and its bytes *)

NoResponse == [type |-> "none"]

NoBytes == ""

Header(title, value) == [title |-> title, value |-> value]

\* Display for Header
Header_to_string(header) == header.title \o " : " \o header.value

\* Display for ContentType
ContentType ==
    [Text |-> "text/plain", Html |-> "text/html", Json |-> "application/json"]

\* Display for HttpCode
HttpCode_to_string ==
    [Ok |-> "200 OK", Created |-> "201 Created", BadRequest |-> "400 Bad Request",
     Unauthorized |-> "401 Unauthorized", NotFound |-> "404 Not Found",
     MethodNotAllowed |-> "405 Method Not Allowed",
     RequestTimeout |-> "408 Request Timeout", Teapot |-> "418 I'm a teapot",
     InternalServerError |-> "500 Internal Server Error"]

\* Utc::now() in the format of the Date header, at one instant
Date == "Sun, 01 Nov 2026 00:00:00 GMT"

\* Response::new
Response_new(code, content_type, compression) ==
    [type |-> "Response", code |-> code, content_type |-> content_type,
     body |-> "", compression |-> compression,
     headers |->
        <<Header("Server", "Ferriscuit"), Header("Date", Date),
          Header("Cache-Control", "no-cache"),
          Header("Content-Type", ContentType[content_type])>>
          \o (IF compression THEN <<Header("Content-Encoding", "gzip")>>
              ELSE <<>>)]

\* Response::add_header
add_header(self, title, value) ==
    [self EXCEPT !.headers = Append(@, Header(title, value))]

\* Response::code
Response_code(self, code) == [self EXCEPT !.code = code]

\* Response::content_type
Response_content_type(self, content_type) ==
    [self EXCEPT !.content_type = content_type]

\* Response::body and Response::add_body
Response_body(self, body) == [self EXCEPT !.body = body]

\* Vec::remove at the position index, counted from 0
remove(v, index) == SubSeq(v, 1, index) \o SubSeq(v, index + 2, Len(v))

\* The position, from 0, of the last Content-Encoding header; -1 for none
last_content_encoding(self) ==
    LET found == {i \in 1 .. Len(self.headers) :
                    self.headers[i].title = "Content-Encoding"}
    IN IF found = {} THEN -1
       ELSE (CHOOSE i \in found : \A j \in found : j <= i) - 1

\* Response::compression that leaves the headers as they are
Response_compression_flag_only(self, compression) ==
    [self EXCEPT !.compression = compression]

\* Response::compression
Response_compression(self, compression) ==
    LET flagged == [self EXCEPT !.compression = compression]
        index == last_content_encoding(self)
    IN IF compression
         THEN IF index >= 0 THEN flagged
              ELSE add_header(flagged, "Content-Encoding", "gzip")
       ELSE IF index > 0
         THEN [flagged EXCEPT !.headers = remove(@, index)]
       ELSE flagged

\* The gzip member GzEncoder makes of a short body of n bytes that holds
\* no repetition: a header of 10 bytes, one deflate block of n + 2 bytes,
\* the checksum and the size in 8 bytes.  The characters stand for those
\* bytes.
gzip(data) == "GZIP-MEMBR" \o "<" \o data \o ">" \o "CRC+SIZE"

\* to_bytes: the body it emits
emitted_body(self) ==
    IF ~self.compression THEN self.body ELSE gzip(self.body)

\* to_bytes: the value of Content-Length taken from the body as stored
content_length_of_stored(self) == ToString(Len(self.body))

\* to_bytes: the value of the Content-Length header
content_length(self) == ToString(Len(emitted_body(self)))

RECURSIVE join(_, _)
\* [String]::join
join(v, sep) ==
    IF v = <<>> THEN ""
    ELSE IF Len(v) = 1 THEN v[1]
    ELSE v[1] \o sep \o join(Tail(v), sep)

\* to_bytes: the Response it leaves
to_bytes_self(self) == add_header(self, "Content-Length", content_length(self))

\* to_bytes: the bytes it returns
to_bytes(self) ==
    LET response_line == "HTTP/1.1 " \o HttpCode_to_string[self.code] \o "\r\n"
        after == to_bytes_self(self)
        texts == [i \in 1 .. Len(after.headers) |->
                    Header_to_string(after.headers[i])]
    IN response_line \o join(texts, "\r\n") \o "\r\n\r\n" \o emitted_body(self)

----------------------------------------------------------------------------
(* request and api: the negotiation of the compression, and the Response *)
(* of a GET                                                                *)

\* char::to_lowercase, for the characters of the model
lower_char(c) ==
    IF \E i \in 1 .. Len(Upper) : char(Upper, i) = c
      THEN char(Lower, CHOOSE i \in 1 .. Len(Upper) : char(Upper, i) = c)
      ELSE c

RECURSIVE to_lowercase(_)
\* str::to_lowercase
to_lowercase(s) ==
    IF s = "" THEN ""
    ELSE lower_char(char(s, 1)) \o to_lowercase(SubSeq(s, 2, Len(s)))

RECURSIVE split(_, _)
\* str::split(sep).collect()
split(s, sep) ==
    IF ~contains(s, sep) THEN <<s>>
    ELSE LET at == CHOOSE i \in 1 .. Len(s) :
                     /\ SubSeq(s, i, i + Len(sep) - 1) = sep
                     /\ \A j \in 1 .. i - 1 : SubSeq(s, j, j + Len(sep) - 1) # sep
         IN <<SubSeq(s, 1, at - 1)>> \o split(SubSeq(s, at + Len(sep), Len(s)), sep)

RECURSIVE trim(_)
\* str::trim
trim(s) ==
    IF s = "" THEN ""
    ELSE IF char(s, 1) \in WhiteSpace THEN trim(SubSeq(s, 2, Len(s)))
    ELSE IF char(s, Len(s)) \in WhiteSpace THEN trim(SubSeq(s, 1, Len(s) - 1))
    ELSE s

\* is_compression_supported: what one header that holds "accept-encoding"
\* says: "true" for return true, "false" for going on to the next header,
\* "panic" for an index out of bounds
accepts_gzip(header) ==
    LET words == split_whitespace(header)
    IN IF contains(header, ",")
         THEN LET parts == split(header, ", ")
                  first == split_whitespace(trim(parts[1]))
              IN IF Len(first) < 2 THEN "panic"
                 ELSE IF \/ contains(first[2], "gzip")
                         \/ \E i \in 2 .. Len(parts) :
                               contains(trim(parts[i]), "gzip")
                   THEN "true"
                 ELSE "false"
       ELSE IF Len(words) < 2 THEN "panic"
       ELSE IF words[2] = "gzip" THEN "true"
       ELSE "false"

RECURSIVE is_compression_supported(_)
\* Request::is_compression_supported, on Request.headers
is_compression_supported(hs) ==
    IF hs = <<>> THEN "false"
    ELSE LET header == to_lowercase(Head(hs))
         IN IF contains(header, "firefox") THEN "false"
            ELSE IF contains(header, "accept-encoding")
                       /\ accepts_gzip(header) # "false"
              THEN accepts_gzip(header)
            ELSE is_compression_supported(Tail(hs))

\* read_file_to_bytes("static/index.html") and ("static/home.html"), for
\* files that are there
IndexHtml == "<html>index</html>"

HomeHtml == "<html>home</html>"

\* The text of the teapot
TeapotText == "I'm a Teapot, I can't brew coffee"

\* Response::default
Response_default == Response_body(Response_new("Ok", "Html", TRUE), IndexHtml)

\* handle_get: the Response it returns, or the panic of
\* is_compression_supported
handle_get_response(request) ==
    LET supported == is_compression_supported(request.headers)
    IN IF supported = "panic" THEN [type |-> "panic"]
       ELSE IF (\E i \in 1 .. Len(request.headers) : request.headers[i] = "Brew")
                  \/ request.uri = "/coffee"
         THEN Response_body(
                Response_compression(
                  Response_content_type(
                    Response_code(Response_default, "Teapot"), "Text"),
                  supported = "true"),
                TeapotText)
       ELSE Response_body(Response_compression(Response_default,
                                               supported = "true"),
                          IF request.uri = "/home" THEN HomeHtml ELSE IndexHtml)

----------------------------------------------------------------------------
(* What a client may send in one read *)

NoReq == ""

Requests ==
    { "GET /index.html HTTP/1.1\r\nHost: a\r\n\r\n",
      "GET /../etc/passwd HTTP/1.1\r\nHost: a\r\n\r\n",  \* rejected, parsed
      "GET / HTTP/1.1\r\n\r\n",                          \* two lines only
      "\r\n\r\n\r\n",                                    \* three empty lines
      X80 }                                              \* not UTF-8

\* Requests that differ in their method token only
MethodRequests ==
    { "OPTIONS /index.html HTTP/1.1\r\nHost: a\r\n\r\n",
      "PATCH /index.html HTTP/1.1\r\nHost: a\r\n\r\n",
      "DELETE /index.html HTTP/1.1\r\nHost: a\r\n\r\n" }

\* handle_request on each of these, for either build
Validated ==
    [req \in Requests \cup MethodRequests |->
        [checked \in BOOLEAN |-> handle_request(req, checked)]]

\* Request::new on each of these
Parsed == [req \in Requests \cup MethodRequests |-> Request_new(req)]

----------------------------------------------------------------------------
(* run_server: the accept loop *)

\* The task spawned for an accepted connection, at the top of its loop
NewSession ==
    [pc |-> "read", req |-> NoReq, status |-> 0, shutdown_rx |-> subscribe,
     permit |-> 1]

\* backoff growing by its initial value instead of doubling
next_backoff_linear(b) == b + INITIAL_BACKOFF

\* What backoff becomes after a sleep
next_backoff(b) == b * 2

\* The ceiling test passing a backoff up to twice the ceiling
exhausted_above_twice_ceiling(b) == b > 2 * BACKOFF_CEILING

\* The ceiling test of Listener::accept
exhausted(b) == b > BACKOFF_CEILING

\* Listener::accept entered with the backoff the call before it ended with
accept_entry_keeps_backoff == backoff' = backoff /\ waits' = <<>>

\* The entry of Listener::accept: let mut backoff: usize = 200
accept_entry == backoff' = INITIAL_BACKOFF /\ waits' = <<>>

\* The loop entering listener.accept() without acquire_owned()
AcquirePermit_skipped ==
    /\ accPc = "acquire"
    /\ accPc' = "accept"
    /\ accept_entry
    /\ log' = <<>>
    /\ UNCHANGED <<connection_limit, permit, clients, sessions, mainPc,
                   truncated, is_shutdown, chan, panicked, rxs, got,
                   after_retry, exit_status, validatorVars, codecVars, errorVars>>

\* connection_limit.clone().acquire_owned().await, then the entry of
\* listener.accept()
AcquirePermit ==
    /\ accPc = "acquire"
    /\ connection_limit > 0
    /\ connection_limit' = connection_limit - 1
    /\ permit' = permit + 1
    /\ accPc' = "accept"
    /\ accept_entry
    /\ log' = <<>>
    /\ UNCHANGED <<clients, sessions, mainPc, truncated, is_shutdown, chan,
                   panicked, rxs, got, after_retry, exit_status, validatorVars, codecVars, errorVars>>

\* self.listener.accept().await returns Ok: Listener::accept returns the stream
AcceptOk ==
    /\ accPc = "accept"
    /\ clients > 0
    /\ clients' = clients - 1
    /\ accPc' = "accepted"
    /\ after_retry' = (waits # <<>>)
    /\ log' = <<>>
    /\ UNCHANGED <<connection_limit, permit, backoff, waits, sessions, mainPc,
                   truncated, is_shutdown, chan, panicked, rxs, got,
                   exit_status, validatorVars, codecVars, errorVars>>

\* self.listener.accept().await returns Err: give up above the ceiling (then
\* run_server returns Err, its permit is dropped and select! takes the
\* run_server branch), else sleep for backoff
AcceptErr ==
    /\ accPc = "accept"
    /\ IF exhausted(backoff)
         THEN /\ accPc' = "err"
              /\ connection_limit' = connection_limit + permit
              /\ permit' = 0
              /\ mainPc' = "run_server_done"
              /\ waits' = waits
         ELSE /\ accPc' = "sleep"
              /\ waits' = Append(waits, backoff)
              /\ UNCHANGED <<connection_limit, permit, mainPc>>
    /\ log' = <<>>
    /\ UNCHANGED <<backoff, clients, sessions, truncated, is_shutdown, chan,
                   panicked, rxs, got, after_retry, exit_status, validatorVars, codecVars, errorVars>>

\* time::sleep(backoff) is over: backoff *= 2 and the next attempt
SleepDone ==
    /\ accPc = "sleep"
    /\ backoff' = next_backoff(backoff)
    /\ accPc' = "accept"
    /\ log' = <<>>
    /\ UNCHANGED <<connection_limit, permit, waits, clients, sessions, mainPc,
                   truncated, is_shutdown, chan, panicked, rxs, got,
                   after_retry, exit_status, validatorVars, codecVars, errorVars>>

\* Spawn with the permit dropped by run_server instead of moved into the task
Spawn_drops_permit ==
    /\ accPc = "accepted"
    /\ sessions' = sessions (+) SetToBag({[NewSession EXCEPT !.permit = 0]})
    /\ connection_limit' = connection_limit + permit
    /\ permit' = 0
    /\ accPc' = "acquire"
    /\ log' = <<>>
    /\ UNCHANGED <<backoff, waits, clients, mainPc, truncated, is_shutdown,
                   chan, panicked, rxs, got, after_retry, exit_status,
                   validatorVars, codecVars, errorVars>>

\* The handler is built (subscribe) and the task is spawned; the permit
\* moves into the task
Spawn ==
    /\ accPc = "accepted"
    /\ sessions' = sessions (+) SetToBag({NewSession})
    /\ permit' = permit - NewSession.permit
    /\ accPc' = "acquire"
    /\ log' = <<>>
    /\ UNCHANGED <<connection_limit, backoff, waits, clients, mainPc,
                   truncated, is_shutdown, chan, panicked, rxs, got,
                   after_retry, exit_status, validatorVars, codecVars, errorVars>>

----------------------------------------------------------------------------
(* The session task spawned by run_server *)

RECURSIVE PermitsOf(_)
\* The permits held by the tasks of the bag B
PermitsOf(B) ==
    IF B = EmptyBag THEN 0
    ELSE LET rec == CHOOSE r \in BagToSet(B) : TRUE
         IN rec.permit + PermitsOf(B (-) SetToBag({rec}))

\* EndSession taking every other task down with it, as a panic does in a
\* build that aborts on panic
EndSession_aborts_all(rec) ==
    /\ sessions' = EmptyBag
    /\ connection_limit' = connection_limit + PermitsOf(sessions)

\* EndSession with the permit forgotten instead of dropped
EndSession_leaks(rec) ==
    /\ sessions' = sessions (-) SetToBag({rec})
    /\ connection_limit' = connection_limit

\* The task is over (break, then drop(permit); or a panic unwinding the
\* task): its permit and its receiver are dropped
EndSession(rec) ==
    /\ sessions' = sessions (-) SetToBag({rec})
    /\ connection_limit' = connection_limit + rec.permit

\* The task goes on with local state next
Continue(rec, next) ==
    /\ sessions' = (sessions (-) SetToBag({rec})) (+) SetToBag({next})
    /\ connection_limit' = connection_limit

Live(rec) == mainPc # "returned" /\ rec \in BagToSet(sessions)

\* What a step of a session task leaves alone
SessionFrame ==
    UNCHANGED <<permit, accPc, backoff, waits, clients, mainPc, truncated,
                is_shutdown, chan, panicked, rxs, got, after_retry,
                exit_status, validatorVars, codecVars, errorVars>>

\* read returns 0 bytes: break
ReadZero(rec) ==
    /\ Live(rec) /\ rec.pc = "read"
    /\ EndSession(rec)
    /\ log' = <<>>
    /\ SessionFrame

\* read returns an error: log it, break
ReadError(rec) ==
    /\ Live(rec) /\ rec.pc = "read"
    /\ EndSession(rec)
    /\ log' = <<"read">>
    /\ SessionFrame

\* The timeout reported to the error log like a read error
ReadTimeout_reports(rec) ==
    /\ Live(rec) /\ rec.pc = "read"
    /\ EndSession(rec)
    /\ log' = <<"read">>
    /\ SessionFrame

\* the 5 second timeout elapses: break
ReadTimeout(rec) ==
    /\ Live(rec) /\ rec.pc = "read"
    /\ EndSession(rec)
    /\ log' = <<>>
    /\ SessionFrame

\* What the match on handle_request's result writes to the log
validation_log(req) ==
    IF Validated[req][overflow_checks].type = "BadRequest"
      THEN <<"validation">> ELSE <<>>

\* The loop with an Err arm of Request::new that breaks without logging
after_read_silent_parse_error(rec, req) ==
    IF Validated[req][overflow_checks].type = "panic"
      THEN EndSession(rec) /\ log' = <<>>
    ELSE IF Parsed[req].type = "Request"
      THEN /\ Continue(rec, [rec EXCEPT !.pc = "dispatch", !.req = req])
           /\ log' = validation_log(req)
    ELSE EndSession(rec) /\ log' = validation_log(req)

\* What the task does with the bytes read: handle_request's error is logged
\* and the loop goes on to Request::new, whose error is logged and breaks
\* the loop; a panic of either ends the task
after_read(rec, req) ==
    IF Validated[req][overflow_checks].type = "panic"
      THEN EndSession(rec) /\ log' = <<>>
    ELSE IF Parsed[req].type = "Request"
      THEN /\ Continue(rec, [rec EXCEPT !.pc = "dispatch", !.req = req])
           /\ log' = validation_log(req)
    ELSE IF Parsed[req].type = "panic"
      THEN EndSession(rec) /\ log' = validation_log(req)
    ELSE EndSession(rec) /\ log' = validation_log(req) \o <<"parse">>

\* read returns bytes
ReadData(rec, req) ==
    /\ Live(rec) /\ rec.pc = "read"
    /\ after_read(rec, req)
    /\ SessionFrame

\* What a route writes to the log with the code it returns
handler_log(request, code) ==
    IF request.method \in {"POST", "DELETE"} /\ code # HttpCode.Ok
      THEN <<"handler">> ELSE <<>>

\* handle_response returns a Response; write_all starts
Dispatch(rec) ==
    /\ Live(rec) /\ rec.pc = "dispatch"
    /\ \E code \in handle_response(Parsed[rec.req]) :
          /\ Continue(rec, [rec EXCEPT !.pc = "write", !.status = code])
          /\ log' = handler_log(Parsed[rec.req], code)
    /\ SessionFrame

\* handle_response panics (an unwrap in a route handler): the task unwinds
DispatchPanic(rec) ==
    /\ Live(rec) /\ rec.pc = "dispatch"
    /\ EndSession(rec)
    /\ log' = <<>>
    /\ SessionFrame

\* What the test after the write writes to the log: the error of recv
recv_log(rec) ==
    IF ~is_empty(rec.shutdown_rx) /\ recv(rec.shutdown_rx) = "Lagged"
      THEN <<"recv">> ELSE <<>>

\* The loop without the test after the write
after_write_goes_on(rec) ==
    Continue(rec, [rec EXCEPT !.pc = "read", !.req = NoReq, !.status = 0])

\* The test after the write: a pending message is received, a recv error
\* counts as ServerRunning, Terminate breaks the loop
after_write(rec) ==
    IF is_empty(rec.shutdown_rx)
      THEN Continue(rec, [rec EXCEPT !.pc = "read", !.req = NoReq, !.status = 0])
      ELSE LET r == recv(rec.shutdown_rx)
               msg == IF r = "Lagged" THEN "ServerRunning" ELSE r
           IN IF msg = "Terminate"
                THEN EndSession(rec)
                ELSE Continue(rec, [rec EXCEPT !.pc = "read", !.req = NoReq,
                                       !.status = 0,
                                       !.shutdown_rx = recv_cursor(rec.shutdown_rx)])

\* write_all returns Ok
WriteOk(rec) ==
    /\ Live(rec) /\ rec.pc = "write"
    /\ after_write(rec)
    /\ log' = recv_log(rec)
    /\ SessionFrame

\* write_all returns Err: the error is logged and the loop goes on
WriteErr(rec) ==
    /\ Live(rec) /\ rec.pc = "write"
    /\ after_write(rec)
    /\ log' = <<"write">> \o recv_log(rec)
    /\ SessionFrame

----------------------------------------------------------------------------
(* main *)

\* create_socket and get_listener return Ok: the channel, the Shutdown and
\* the Listener are made and select! polls run_server
SetupOk ==
    /\ mainPc = "setup"
    /\ mainPc' = "select"
    /\ accPc' = "acquire"
    /\ log' = <<>>
    /\ UNCHANGED <<connection_limit, permit, backoff, waits, clients, sessions,
                   truncated, is_shutdown, chan, panicked, rxs, got,
                   after_retry, exit_status, validatorVars, codecVars, errorVars>>

\* What main does with a failure of create_socket or get_listener when it
\* goes on without reporting it
setup_failed_ignored == log' = <<>> /\ exit_status' = "success"

\* What main does with a failure of create_socket or get_listener: the
\* error is logged and main panics
setup_failed == log' = <<"setup">> /\ exit_status' = "failure"

\* create_socket or get_listener returns Err
SetupFail ==
    /\ mainPc = "setup"
    /\ mainPc' = "returned"
    /\ setup_failed
    /\ rxs' = [r \in {} |-> 0]
    /\ UNCHANGED <<connection_limit, permit, accPc, backoff, waits, clients,
                   sessions, truncated, is_shutdown, chan, panicked, got,
                   after_retry, validatorVars, codecVars, errorVars>>

\* The accept loop left running when ctrl-c wins (run_server spawned as a
\* task of its own instead of polled by select!)
drop_run_server_detached == UNCHANGED <<accPc, connection_limit, permit>>

\* What select! does to run_server's future when the ctrl-c branch wins: the
\* future is dropped, with the permit it holds
drop_run_server ==
    /\ accPc' = "dropped"
    /\ connection_limit' = connection_limit + permit
    /\ permit' = 0

\* ctrl-c completes
Signal ==
    /\ mainPc = "select"
    /\ mainPc' = "signalled"
    /\ drop_run_server
    /\ log' = <<>>
    /\ UNCHANGED <<backoff, waits, clients, sessions, truncated, is_shutdown,
                   chan, panicked, rxs, got, after_retry, exit_status,
                   validatorVars, codecVars, errorVars>>

\* shutdown.initiate_shutdown().await in the ctrl-c branch
InitiateShutdown ==
    /\ mainPc = "signalled"
    /\ initiate_shutdown
    /\ mainPc' = IF panicked' THEN "panicked" ELSE "shutdown_done"
    /\ log' = <<>>
    /\ UNCHANGED <<connection_limit, permit, accPc, backoff, waits, clients,
                   sessions, truncated, rxs, got, after_retry, exit_status,
                   validatorVars, codecVars, errorVars>>

\* A runtime whose drop leaves the tasks suspended for ever
runtime_drop_detaches ==
    /\ truncated' = FALSE
    /\ UNCHANGED <<sessions, connection_limit>>

\* Dropping the runtime drops every task where it is suspended
runtime_drop ==
    /\ truncated' = \E rec \in BagToSet(sessions) : rec.pc = "write"
    /\ sessions' = EmptyBag
    /\ connection_limit' = connection_limit + PermitsOf(sessions)

\* The status of the process when main returns Ok(()) or unwinds
status_of_main(pc) == IF pc = "panicked" THEN "failure" ELSE "success"

\* main returns Ok(()) after either branch of select! (or unwinds from the
\* panic): _rx and the runtime are dropped.  The result of run_server is
\* matched by `_` and nothing is written to the error log.
MainReturn ==
    /\ mainPc \in {"run_server_done", "shutdown_done", "panicked"}
    /\ mainPc' = "returned"
    /\ exit_status' = status_of_main(mainPc)
    /\ log' = <<>>
    /\ runtime_drop
    /\ rxs' = [r \in {} |-> 0]
    /\ UNCHANGED <<permit, accPc, backoff, waits, clients, is_shutdown, chan,
                   panicked, got, after_retry, validatorVars, codecVars, errorVars>>

----------------------------------------------------------------------------
(* The server as main wires it *)

\* What the validator returns when it has not been called
NotCalled == [type |-> "none", msg |-> ""]

\* No buffer is under validation
ValidatorIdle ==
    /\ buffer = NoReq
    /\ overflow_checks = FALSE
    /\ result = NotCalled
    /\ response = NoResponse
    /\ emitted = NoBytes
    /\ ErrorIdle

\* main at pc with n clients to come; the accept loop is not polled before
\* select!
ServerInit(n, pc) ==
    /\ connection_limit = MAX_PERMITS
    /\ permit = 0
    /\ accPc = IF pc = "select" THEN "acquire" ELSE "unpolled"
    /\ backoff = INITIAL_BACKOFF
    /\ waits = <<>>
    /\ clients = n
    /\ sessions = EmptyBag
    /\ mainPc = pc
    /\ truncated = FALSE
    /\ Shutdown_new
    /\ chan = <<>>
    /\ panicked = FALSE
    /\ rxs = [r \in {MainRx} |-> 0]
    /\ got = [r \in ReceiverIds |-> "none"]
    /\ after_retry = FALSE
    /\ log = <<>>
    /\ exit_status = "running"

\* main at select!, with n clients to come
InitWith(n) == ServerInit(n, "select") /\ ValidatorIdle

\* main before create_socket
Init == ServerInit(MaxClients, "setup") /\ ValidatorIdle

Next ==
    \/ SetupOk
    \/ SetupFail
    \/ AcquirePermit
    \/ AcceptOk
    \/ AcceptErr
    \/ SleepDone
    \/ Spawn
    \/ \E rec \in BagToSet(sessions) : ReadZero(rec)
    \/ \E rec \in BagToSet(sessions) : ReadError(rec)
    \/ \E rec \in BagToSet(sessions) : ReadTimeout(rec)
    \/ \E rec \in BagToSet(sessions), req \in Requests : ReadData(rec, req)
    \/ \E rec \in BagToSet(sessions) : Dispatch(rec)
    \/ \E rec \in BagToSet(sessions) : DispatchPanic(rec)
    \/ \E rec \in BagToSet(sessions) : WriteOk(rec)
    \/ \E rec \in BagToSet(sessions) : WriteErr(rec)
    \/ Signal
    \/ InitiateShutdown
    \/ MainReturn

Spec == Init /\ [][Next]_vars

\* The server from the select! on, with a few clients whose requests
\* differ in their method token
MethodClients == 2

MethodInit == InitWith(MethodClients)

MethodNext ==
    \/ AcquirePermit
    \/ AcceptOk
    \/ AcceptErr
    \/ SleepDone
    \/ Spawn
    \/ \E rec \in BagToSet(sessions) : ReadZero(rec)
    \/ \E rec \in BagToSet(sessions) : ReadError(rec)
    \/ \E rec \in BagToSet(sessions) : ReadTimeout(rec)
    \/ \E rec \in BagToSet(sessions), req \in MethodRequests : ReadData(rec, req)
    \/ \E rec \in BagToSet(sessions) : Dispatch(rec)
    \/ \E rec \in BagToSet(sessions) : DispatchPanic(rec)
    \/ \E rec \in BagToSet(sessions) : WriteOk(rec)
    \/ \E rec \in BagToSet(sessions) : WriteErr(rec)
    \/ Signal
    \/ InitiateShutdown
    \/ MainReturn

SpecMethods == MethodInit /\ [][MethodNext]_vars

\* The scheduling of the runtime: the set-up calls of main return, a task
\* that can run does run, a pending connection is accepted, a read returns
\* within its timeout, a sleep ends.
\* Whether accept() fails, whether ctrl-c arrives and what a client sends
\* are left to the environment.
Fairness ==
    /\ WF_vars(SetupOk \/ SetupFail)
    /\ WF_vars(AcquirePermit)
    /\ WF_vars(AcceptOk)
    /\ WF_vars(SleepDone)
    /\ WF_vars(Spawn)
    /\ WF_vars(\E rec \in BagToSet(sessions) :
                  \/ ReadZero(rec) \/ ReadError(rec) \/ ReadTimeout(rec)
                  \/ \E req \in Requests : ReadData(rec, req))
    /\ WF_vars(\E rec \in BagToSet(sessions) : Dispatch(rec) \/ DispatchPanic(rec))
    /\ WF_vars(\E rec \in BagToSet(sessions) : WriteOk(rec) \/ WriteErr(rec))
    /\ WF_vars(InitiateShutdown)
    /\ WF_vars(MainReturn)

\* The server with a single client connection, under the runtime's scheduling
FairInit == ServerInit(FairClients, "setup") /\ ValidatorIdle

FairSpec == FairInit /\ [][Next]_vars /\ Fairness

----------------------------------------------------------------------------
(* The Shutdown object used on its own, as tests/connection_test.rs does:  *)
(* a channel with its first receiver, a Shutdown on the sender, and any    *)
(* sequence of subscribe, recv, drop and initiate_shutdown.                *)

\* tx.subscribe() into the free name r
ApiSubscribe(r) ==
    /\ ~panicked
    /\ r \in ReceiverIds \ DOMAIN rxs
    /\ rxs' = [x \in DOMAIN rxs \cup {r} |-> IF x = r THEN subscribe ELSE rxs[x]]
    /\ got' = [got EXCEPT ![r] = "none"]
    /\ UNCHANGED <<is_shutdown, chan, panicked>>
    /\ UNCHANGED serverVars
    /\ UNCHANGED <<validatorVars, codecVars, errorVars>>

\* rx.recv().await on a receiver with a value waiting
ApiRecv(r) ==
    /\ ~panicked
    /\ r \in DOMAIN rxs
    /\ ~is_empty(rxs[r])
    /\ got' = [got EXCEPT ![r] = recv(rxs[r])]
    /\ rxs' = [rxs EXCEPT ![r] = recv_cursor(rxs[r])]
    /\ UNCHANGED <<is_shutdown, chan, panicked>>
    /\ UNCHANGED serverVars
    /\ UNCHANGED <<validatorVars, codecVars, errorVars>>

\* a receiver is dropped
ApiDrop(r) ==
    /\ ~panicked
    /\ r \in DOMAIN rxs
    /\ rxs' = [x \in DOMAIN rxs \ {r} |-> rxs[x]]
    /\ UNCHANGED <<is_shutdown, chan, panicked, got>>
    /\ UNCHANGED serverVars
    /\ UNCHANGED <<validatorVars, codecVars, errorVars>>

\* shutdown.initiate_shutdown().await
ApiInitiateShutdown ==
    /\ ~panicked
    /\ Len(chan) < MaxSends
    /\ initiate_shutdown
    /\ UNCHANGED <<rxs, got>>
    /\ UNCHANGED serverVars
    /\ UNCHANGED <<validatorVars, codecVars, errorVars>>

ApiInit == InitWith(MaxClients)

ApiNext ==
    \/ \E r \in ReceiverIds : ApiSubscribe(r)
    \/ \E r \in ReceiverIds : ApiRecv(r)
    \/ \E r \in ReceiverIds : ApiDrop(r)
    \/ ApiInitiateShutdown

SpecShutdown == ApiInit /\ [][ApiNext]_vars

----------------------------------------------------------------------------
(* The validator called on its own, as the tests of request_validation do: *)
(* handle_request on one buffer, in a build with or without overflow       *)
(* checks.                                                                 *)

RECURSIVE repeat(_, _)
\* str::repeat
repeat(s, n) ==
    IF n = 0 THEN ""
    ELSE LET h == repeat(s, n \div 2)
         IN h \o h \o (IF n % 2 = 1 THEN s ELSE "")

\* Method tokens: those of HttpMethod, an unknown one and a lower-case one
MethodTokens == HttpMethods \cup {"INVALID", "get"}

UriTokens == {"/index.html", "/../etc/passwd", "index.html"}

ProtocolTokens == {"HTTP/1.1", "HTTP/2.0"}

\* First lines: three tokens of these, two tokens, and the empty line
RequestLines ==
    {m \o " " \o u \o " " \o p :
        m \in MethodTokens, u \in UriTokens, p \in ProtocolTokens}
      \cup {"GET /index.html", ""}

HostLine == "Host: a\r\n"

\* Numbers of Host lines: none, one, two, and one and two beyond what
\* host_count holds
HostCounts == {0, 1, 2, U8_MAX + 1, U8_MAX + 2}

HeaderBlocks ==
    {repeat(HostLine, n) : n \in HostCounts} \cup {"User-Agent: t\r\n" \o HostLine}

\* What follows the headers: the empty line; nothing; the empty line and a
\* body with a Host line and the terminator; the empty line and a body
\* without the terminator
Tails == {"\r\n", "", "\r\nHost: b\r\n\r\n", "\r\nbody"}

\* Buffers of fewer than four bytes
ShortBuffers == {"", "G", "\r\n", "\n\n\n", "a b", X80}

Buffers ==
    {l \o "\r\n" \o h \o t \o x :
        l \in RequestLines, h \in HeaderBlocks, t \in Tails, x \in {"", X80}}
      \cup ShortBuffers

\* handle_request(&buffer)
CallHandleRequest ==
    /\ result = NotCalled
    /\ result' = handle_request(buffer, overflow_checks)
    /\ UNCHANGED <<buffer, overflow_checks, is_shutdown, chan, panicked, rxs, got,
                   codecVars, errorVars>>
    /\ UNCHANGED serverVars

ValidatorInit ==
    /\ ServerInit(MaxClients, "select")
    /\ buffer \in Buffers
    /\ overflow_checks \in BOOLEAN
    /\ result = NotCalled
    /\ response = NoResponse
    /\ emitted = NoBytes
    /\ ErrorIdle

ValidatorNext == CallHandleRequest

SpecValidator == ValidatorInit /\ [][ValidatorNext]_vars

----------------------------------------------------------------------------
(* validate_uri called on its own, as its tests do, on every URI up to a   *)
(* length over a few characters and on some longer ones; and               *)
(* handle_request on the two requests of the validator's examples.         *)

MaxUriLen == 4

\* Characters of the URIs: the slash, the dot, letters of which two make a
\* forbidden word, a forbidden character, a control character, the null
\* byte
UriAlphabet == {"/", ".", "a", "r", "m", "%", "\t", X00}

RECURSIVE Strings(_)
\* The strings of at most n characters of UriAlphabet
Strings(n) ==
    IF n = 0 THEN {""}
    ELSE LET S == Strings(n - 1)
         IN S \cup {s \o c : s \in S, c \in UriAlphabet}

UriExamples ==
    {"/index.html", "/../../etc/passwd", "/../etc/passwd",
     "/index.html?<script>alert(1)</script>", "http://a/", "/a&&b", "/a;--",
     "/bash", "/form.html", "/home"}

UriInputs == Strings(MaxUriLen) \cup UriExamples

RequestExamples ==
    {"GET /../etc/passwd HTTP/1.1\r\nHost: x\r\n\r\n",
     "GET /index.html HTTP/1.1\r\nHost: example.com\r\n\r\n"}

\* What a call leaves alone
CallFrame ==
    /\ UNCHANGED <<buffer, overflow_checks, is_shutdown, chan, panicked, rxs, got,
                   codecVars, errorVars>>
    /\ UNCHANGED serverVars

\* validate_uri(uri)
CallValidateUri ==
    /\ result = NotCalled
    /\ buffer \in UriInputs
    /\ result' = validate_uri(buffer)
    /\ CallFrame

\* handle_request on a whole request
CallHandleExample ==
    /\ result = NotCalled
    /\ buffer \in RequestExamples
    /\ result' = handle_request(buffer, overflow_checks)
    /\ CallFrame

UriInit ==
    /\ ServerInit(MaxClients, "select")
    /\ buffer \in UriInputs \cup RequestExamples
    /\ overflow_checks \in BOOLEAN
    /\ result = NotCalled
    /\ response = NoResponse
    /\ emitted = NoBytes
    /\ ErrorIdle

UriNext == CallValidateUri \/ CallHandleExample

SpecUri == UriInit /\ [][UriNext]_vars

----------------------------------------------------------------------------
(* A Response built call by call and turned into bytes once, as            *)
(* run_server does with the Response of handle_response; and the Response  *)
(* of a GET as a session serves it.                                        *)

Bodies == {"", "Invalid JSON.", IndexHtml}

Codes == {"Ok", "BadRequest", "Teapot"}

ContentTypes == {"Text", "Html", "Json"}

GetRequests ==
    {"GET / HTTP/1.1\r\nHost: test\r\n\r\n",
     "GET / HTTP/1.1\r\nHost: test\r\nAccept-Encoding: gzip\r\n\r\n",
     "GET / HTTP/1.1\r\nHost: test\r\nAccept-Encoding: gzip, deflate, br\r\n\r\n",
     "GET / HTTP/1.1\r\nHost: test\r\nAccept-Encoding: deflate, gzip\r\n\r\n",
     "GET / HTTP/1.1\r\nHost: test\r\nAccept-Encoding: deflate\r\n\r\n",
     "GET / HTTP/1.1\r\nHost: test\r\nAccept-Encoding: deflate, br\r\n\r\n",
     "GET / HTTP/1.1\r\nHost: test\r\nUser-Agent: Firefox\r\nAccept-Encoding: gzip\r\n\r\n",
     "GET / HTTP/1.1\r\nHost: test\r\nX-Trace: accept-encoding, gzip\r\n\r\n",
     "GET / HTTP/1.1\r\nHost: test\r\nAccept-Encoding:gzip\r\n\r\n",
     "GET /home HTTP/1.1\r\nHost: test\r\nAccept-Encoding: gzip\r\n\r\n",
     "GET /coffee HTTP/1.1\r\nHost: test\r\nAccept-Encoding: gzip\r\n\r\n",
     "GET /coffee HTTP/1.1\r\nHost: test\r\n\r\n"}

\* What a call on the Response leaves alone
BuilderFrame ==
    /\ UNCHANGED <<validatorVars, errorVars, is_shutdown, chan, panicked, rxs, got>>
    /\ UNCHANGED serverVars

Built == response # NoResponse /\ response.type = "Response" /\ emitted = NoBytes

\* Response::new(Protocol::Http, code, content_type, compression)
New ==
    /\ response = NoResponse
    /\ buffer = NoReq
    /\ \E code \in Codes, content_type \in ContentTypes, compression \in BOOLEAN :
          response' = Response_new(code, content_type, compression)
    /\ UNCHANGED emitted
    /\ BuilderFrame

\* .compression(b)
Compression ==
    /\ Built
    /\ buffer = NoReq
    /\ \E compression \in BOOLEAN :
          response' = Response_compression(response, compression)
    /\ UNCHANGED emitted
    /\ BuilderFrame

\* .body(b), add_body(b)
Body ==
    /\ Built
    /\ buffer = NoReq
    /\ \E body \in Bodies : response' = Response_body(response, body)
    /\ UNCHANGED emitted
    /\ BuilderFrame

\* .code(c)
Code ==
    /\ Built
    /\ buffer = NoReq
    /\ \E code \in Codes : response' = Response_code(response, code)
    /\ UNCHANGED emitted
    /\ BuilderFrame

\* .content_type(t)
SetContentType ==
    /\ Built
    /\ buffer = NoReq
    /\ \E content_type \in ContentTypes :
          response' = Response_content_type(response, content_type)
    /\ UNCHANGED emitted
    /\ BuilderFrame

\* handle_request, Request::new and handle_response on the bytes of a GET
Serve ==
    /\ response = NoResponse
    /\ buffer \in GetRequests
    /\ handle_request(buffer, overflow_checks) = Ok
    /\ Request_new(buffer).type = "Request"
    /\ Request_new(buffer).method = "GET"
    /\ response' = handle_get_response(Request_new(buffer))
    /\ UNCHANGED emitted
    /\ BuilderFrame

\* write_all(&response.to_bytes())
ToBytes ==
    /\ Built
    /\ emitted' = to_bytes(response)
    /\ response' = to_bytes_self(response)
    /\ BuilderFrame

ResponseInit ==
    /\ ServerInit(MaxClients, "select")
    /\ buffer \in GetRequests \cup {NoReq}
    /\ overflow_checks = FALSE
    /\ result = NotCalled
    /\ response = NoResponse
    /\ emitted = NoBytes
    /\ ErrorIdle

ResponseNext ==
    \/ New
    \/ Compression
    \/ Body
    \/ Code
    \/ SetContentType
    \/ Serve
    \/ ToBytes

SpecResponse == ResponseInit /\ [][ResponseNext]_vars

----------------------------------------------------------------------------
(* Request::new called on its own, on requests with up to MaxHeaderLines   *)
(* header lines.                                                           *)

MaxHeaderLines == 2

HeaderLines ==
    {"Host: a", "User-Agent: curl", "Accept: */*", "Accept-Encoding: gzip",
     "Cookie: session=1", "X-Trace: Host"}

RECURSIVE HeaderTexts(_)
\* The texts of at most n header lines
HeaderTexts(n) ==
    IF n = 0 THEN {""}
    ELSE LET T == HeaderTexts(n - 1)
         IN T \cup {t \o h \o "\r\n" : t \in T, h \in HeaderLines}

ParserBuffers ==
    {l \o "\r\n" \o t \o "\r\n" \o b :
        l \in {"GET / HTTP/1.1", "DELETE /file HTTP/1.1"},
        t \in HeaderTexts(MaxHeaderLines),
        b \in {"", "{}\r\nCookie: session=2"}}

\* Request::new(&buffer)
CallRequestNew ==
    /\ result = NotCalled
    /\ result' = Request_new(buffer)
    /\ CallFrame

ParserInit ==
    /\ ServerInit(MaxClients, "select")
    /\ buffer \in ParserBuffers
    /\ overflow_checks \in BOOLEAN
    /\ result = NotCalled
    /\ response = NoResponse
    /\ emitted = NoBytes
    /\ ErrorIdle

ParserNext == CallRequestNew

SpecParser == ParserInit /\ [][ParserNext]_vars

----------------------------------------------------------------------------
(* == called on two values of ErrorType, as assert_eq! does in the tests   *)

ErrorMessages == {"Invalid UTF-8 request", "Wrong result"}

ErrorValues == [type : ErrorVariants, msg : ErrorMessages]

\* self == other
CallEq ==
    /\ equal = "none"
    /\ equal' = IF ErrorType_eq(self_error, other_error) THEN "true" ELSE "false"
    /\ UNCHANGED <<self_error, other_error, validatorVars, codecVars,
                   is_shutdown, chan, panicked, rxs, got>>
    /\ UNCHANGED serverVars

ErrorInit ==
    /\ ServerInit(MaxClients, "select")
    /\ buffer = NoReq
    /\ overflow_checks = FALSE
    /\ result = NotCalled
    /\ response = NoResponse
    /\ emitted = NoBytes
    /\ self_error \in ErrorValues
    /\ other_error \in ErrorValues
    /\ equal = "none"

ErrorNext == CallEq

SpecErrors == ErrorInit /\ [][ErrorNext]_vars

----------------------------------------------------------------------------
(* Properties *)

\* C1: the number of live session tasks never exceeds the capacity of the
\* limiter, whatever the number of clients and the interleaving.
C1_ActiveSessionsBounded == BagCardinality(sessions) <= MAX_PERMITS

\* Five sessions are live, a further client is connecting and the accept
\* loop waits for a permit.
C1_Witness ==
    /\ BagCardinality(sessions) = MAX_PERMITS
    /\ clients > 0
    /\ accPc = "acquire"

\* C2: permits are conserved: free permits + the permit of the accept loop
\* (0 or 1) + the permits of the live session tasks = 5, and every live
\* session task holds exactly one, in whatever state it is.
C2_PermitsConserved ==
    /\ connection_limit \in 0 .. MAX_PERMITS
    /\ permit \in {0, 1}
    /\ \A rec \in BagToSet(sessions) : rec.permit = 1
    /\ connection_limit + permit + PermitsOf(sessions) = MAX_PERMITS

\* accept() has returned its error while a session is dispatching and
\* other sessions have ended.
C2_Witness ==
    /\ accPc = "err"
    /\ clients < MaxClients - 1
    /\ BagCardinality(sessions) = 1
    /\ \E rec \in BagToSet(sessions) : rec.pc = "dispatch"

\* The validator rejected the bytes the (single) session is serving
OnValidationFailurePath ==
    \E rec \in BagToSet(sessions) :
        rec.pc = "dispatch" /\ Validated[rec.req][overflow_checks].type = "BadRequest"

\* C3: for every permit acquired a release is eventually performed, on the
\* validation-failure path among others: once the validator has rejected a
\* session's bytes, the session's permit is eventually given back.
C3_ReleaseOnFailurePaths == OnValidationFailurePath ~> (sessions = EmptyBag)

\* C4: after the shutdown signal no session is terminated between the start
\* and the end of its write_all.
C4_InFlightWriteCompletes == is_shutdown => ~truncated

\* C5: once Terminate has been signalled the accept loop is gone: it takes
\* no further step, accepts no connection and spawns no session.
C5_NoAcceptAfterTerminate ==
    /\ [](is_shutdown => accPc = "dropped")
    /\ [][is_shutdown =>
            /\ accPc' = accPc
            /\ clients' = clients
            /\ BagCardinality(sessions') <= BagCardinality(sessions)]_vars

\* Terminate was signalled during an accept call that was backing off,
\* with clients still connecting and sessions live.
C5_Witness ==
    /\ is_shutdown
    /\ Len(chan) = 1
    /\ accPc = "dropped"
    /\ waits # <<>>
    /\ clients > 0
    /\ sessions # EmptyBag

\* C6: a new Shutdown reports false; after initiate_shutdown has returned
\* on it the flag is true and every receiver in existence at the call has
\* Terminate as its next message; a recv after the call yields Terminate,
\* and a recv by one receiver never moves another receiver's cursor.
C6_ShutdownDelivers ==
    /\ [](chan = <<>> /\ ~panicked => ~is_shutdown)
    /\ [][~is_shutdown /\ ApiInitiateShutdown /\ ~panicked' =>
            /\ is_shutdown'
            /\ \A r \in DOMAIN rxs :
                   (~is_empty(rxs[r]))' /\ (recv(rxs[r]))' = "Terminate"]_vars
    /\ [][\A r \in ReceiverIds :
            ApiRecv(r) =>
                /\ Len(chan) = 1 => got'[r] = "Terminate"
                /\ \A q \in DOMAIN rxs \ {r} : rxs'[q] = rxs[q]]_vars

\* After one call, one receiver has received Terminate and another, which
\* subscribed before the call, still has it waiting.
C6_Witness ==
    /\ is_shutdown
    /\ Len(chan) = 1
    /\ \E r, q \in DOMAIN rxs :
          /\ r # q
          /\ got[r] = "Terminate" /\ is_empty(rxs[r])
          /\ rxs[q] = 0 /\ ~is_empty(rxs[q])

\* C7: the flag is one-way: once true it stays true, and only
\* initiate_shutdown changes it.
C7_FlagOneWay ==
    [][/\ is_shutdown => is_shutdown'
       /\ is_shutdown' # is_shutdown => ApiInitiateShutdown]_vars

\* The flag is still true after a second call and a recv.
C7_Witness ==
    /\ is_shutdown
    /\ Len(chan) >= 2
    /\ \E r \in DOMAIN rxs : got[r] = "Terminate"

\* C8: a second or later initiate_shutdown is a no-op: it leaves the flag
\* and every receiver's queue as they were.
C8_SecondCallNoOp ==
    [][is_shutdown /\ ApiInitiateShutdown => UNCHANGED <<is_shutdown, chan, rxs>>]_vars

\* C9: every receiver in existence once Terminate has been sent, also one
\* subscribed after the call, has received Terminate or has it waiting.
C9_LateSubscriberSeesTerminate ==
    \A r \in DOMAIN rxs :
        (Len(chan) > 0 /\ got[r] # "Terminate") =>
            (~is_empty(rxs[r]) /\ recv(rxs[r]) = "Terminate")

\* The waits of six consecutive failures of one accept() call
BackoffWaits == <<200, 400, 800, 1600, 3200>>

\* C10: within one accept() call the sleeps are 200, 400, 800, 1600, 3200 in
\* this order, each sleep lasts the current backoff, and the call returns
\* its error exactly at the failure that finds backoff = 6400 > 6000.
C10_BackoffSequence ==
    /\ Len(waits) <= Len(BackoffWaits)
    /\ waits = SubSeq(BackoffWaits, 1, Len(waits))
    /\ accPc = "sleep" => waits[Len(waits)] = backoff
    /\ accPc = "accept" => backoff = INITIAL_BACKOFF * (2 ^ Len(waits))
    /\ accPc = "err" => waits = BackoffWaits /\ backoff = 6400

\* accept() has returned its error after the five sleeps.
C10_Witness == accPc = "err" /\ waits = BackoffWaits /\ backoff > BACKOFF_CEILING

\* C11: the backoff starts again after a success: when the accept() call
\* before this one returned Ok after one or more failures, this call starts
\* with backoff = 200 and its first failure sleeps 200 ms.
C11_BackoffResets ==
    /\ after_retry /\ accPc = "accept" /\ waits = <<>> => backoff = INITIAL_BACKOFF
    /\ after_retry /\ accPc = "sleep" /\ Len(waits) = 1 =>
           waits[1] = INITIAL_BACKOFF

\* The call before this one succeeded after failures and this call is in
\* the sleep of its first failure.
C11_Witness == after_retry /\ accPc = "sleep" /\ Len(waits) = 1

\* The attempts the current accept() call has made or is making
Attempts == Len(waits) + 1

\* The most attempts one accept() call makes
MaxAttempts == Len(BackoffWaits) + 1

\* C12: accept() ends after a bounded number of attempts: every failed
\* attempt either ends the call with its error or adds one sleep, a call
\* makes at most 6 attempts and returns its error only at the sixth, and no
\* sleep is longer than 6000 ms.
C12_AcceptTerminates ==
    /\ [](/\ Attempts <= MaxAttempts
          /\ \A i \in 1 .. Len(waits) : waits[i] <= BACKOFF_CEILING
          /\ accPc = "err" => Attempts = MaxAttempts)
    /\ [][AcceptErr => accPc' = "err" \/ Len(waits') = Len(waits) + 1]_vars

\* A call has returned Ok at its sixth attempt.
C12_Witness == accPc = "accepted" /\ Attempts = MaxAttempts

\* The shutdown was requested and carried out
GracefulShutdown == is_shutdown /\ ~panicked

\* C13: the process ends with success only on graceful shutdown; when it
\* ends because run_server returned its error or because the set-up of the
\* socket or listener failed, the step that ends it writes to the error log
\* and the status is a failure.
C13_ExitStatus ==
    mainPc = "returned" =>
        IF GracefulShutdown
          THEN exit_status = "success"
          ELSE exit_status = "failure" /\ log # <<>>

\* A step of the session rec in which something fails in it: a read error,
\* bytes the validator or the parser refuses, a panic, a write error
SessionFailure(rec) ==
    \/ ReadError(rec)
    \/ \E req \in Requests :
          /\ ReadData(rec, req)
          /\ Validated[req][overflow_checks] # Ok \/ Parsed[req].type # "Request"
    \/ DispatchPanic(rec)
    \/ WriteErr(rec)

\* C14: a failure inside one session leaves the accept loop and main where
\* they are, and leaves every other session task as it is.
C14_SessionsIsolated ==
    [][\A rec \in BagToSet(sessions) :
          SessionFailure(rec) =>
              /\ UNCHANGED <<accPc, permit, backoff, waits, clients, mainPc>>
              /\ (sessions (-) SetToBag({rec})) \sqsubseteq sessions']_vars

\* A session has just been closed by bytes that neither the validator nor
\* the parser took, while two other sessions are being served and the
\* accept loop is backing off.
C14_Witness ==
    /\ log = <<"validation", "parse">>
    /\ accPc = "sleep"
    /\ \E r1, r2 \in BagToSet(sessions) : r1.pc = "dispatch" /\ r2.pc = "write"

\* C15: bytes the validator rejects are never parsed into a Request and
\* never dispatched: no session is dispatching or answering such bytes.
C15_RejectedBytesCloseSession ==
    \A rec \in BagToSet(sessions) :
        rec.pc \in {"dispatch", "write"} => Validated[rec.req][overflow_checks] = Ok

\* C16: the response a session writes for bytes the validator rejected has
\* a 400-class status.
C16_RejectedGets4xx ==
    \A rec \in BagToSet(sessions) :
        rec.pc = "write" /\ Validated[rec.req][overflow_checks] # Ok =>
            rec.status \in 400 .. 499

\* C17: a read of zero bytes and an elapsed read timeout close the session:
\* the task is gone, its permit is free again, nothing is written to the
\* error log, and no response was being written.
C17_QuietClose ==
    [][\A rec \in BagToSet(sessions) :
          ReadZero(rec) \/ ReadTimeout(rec) =>
              /\ sessions' = sessions (-) SetToBag({rec})
              /\ connection_limit' = connection_limit + 1
              /\ log' = <<>>
              /\ rec.pc = "read" /\ rec.status = 0]_vars

\* The only session so far is closed and its permit is free, nothing was
\* logged, and the accept loop is in its next call.
C17_Witness ==
    /\ clients = MaxClients - 1
    /\ sessions = EmptyBag
    /\ accPc = "accept"
    /\ connection_limit = MAX_PERMITS - 1
    /\ log = <<>>

\* The first line of the text b, empty when b has no line
first_line(b) == IF lines(b) = <<>> THEN "" ELSE Head(lines(b))

\* The Host lines among the header lines of b, as a number without width
HostCount(b) == IF lines(b) = <<>> THEN 0 ELSE host_lines(Tail(lines(b)))

\* The checks of the validator that b fails, by their place in the order
\* 1 UTF-8, 2 three tokens, 3 method, 4 URI, 5 protocol, 6 Host count,
\* 7 terminator.  Checks 3 to 5 are about the tokens of a first line that
\* has three, checks 2 to 7 about a buffer that is text.
FailingChecks(b) ==
    IF ~from_utf8(b) THEN {1}
    ELSE LET words == split_whitespace(first_line(b))
         IN (IF Len(words) # 3 THEN {2}
             ELSE (IF ~method_allowed(words[1]) THEN {3} ELSE {})
                    \cup (IF validate_uri(words[2]) # Ok THEN {4} ELSE {})
                    \cup (IF words[3] \notin Protocols THEN {5} ELSE {}))
              \cup (IF HostCount(b) # 1 THEN {6} ELSE {})
              \cup (IF ~ends_with(b, "\r\n\r\n") THEN {7} ELSE {})

\* The check an error of the validator comes from, 0 for any other result
CheckOf(res) ==
    IF res.type # "BadRequest" THEN 0
    ELSE IF res.msg = "Invalid UTF-8 request" THEN 1
    ELSE IF res.msg \in {"Missing request line", "Invalid request line"} THEN 2
    ELSE IF res.msg = "Invalid request method" THEN 3
    ELSE IF res.msg = "Invalid request uri" \/ starts_with(res.msg, "Invalid uri: ") THEN 4
    ELSE IF res.msg = "Invalid request protocol" THEN 5
    ELSE IF starts_with(res.msg, "Invalid host count: ") THEN 6
    ELSE IF res.msg = "Request overflow" THEN 7
    ELSE 0

\* C18: handle_request returns Ok exactly when the buffer passes every
\* check, and else the error of the earliest check, in the order UTF-8,
\* three tokens, method, URI, protocol, Host count, terminator, that the
\* buffer fails.
C18_ChecksInOrder ==
    result # NotCalled =>
        LET failing == FailingChecks(buffer)
        IN IF failing = {} THEN result = Ok
           ELSE CheckOf(result) = CHOOSE k \in failing : \A j \in failing : k <= j

\* The buffer passes every check but, possibly, the one of the method
OtherwiseValid == buffer # "" /\ FailingChecks(buffer) \subseteq {3}

\* The method token of the buffer
MethodOf(b) == split_whitespace(first_line(b))[1]

\* C19 as claimed: an otherwise valid request is accepted for each of GET,
\* POST, PUT, PATCH and DELETE and rejected with the error of the method
\* for every other method token.
C19_FiveMethods ==
    result # NotCalled /\ OtherwiseValid =>
        IF MethodOf(buffer) \in HttpMethods
          THEN result = Ok
          ELSE result = BadRequest("Invalid request method")

\* C19: an otherwise valid request is accepted for each of GET, POST, PUT
\* and DELETE and rejected with the error of the method for every other
\* method token, PATCH among them.
C19_FourMethods ==
    result # NotCalled /\ OtherwiseValid =>
        IF MethodOf(buffer) \in {"GET", "POST", "PUT", "DELETE"}
          THEN result = Ok
          ELSE result = BadRequest("Invalid request method")

\* An otherwise valid PATCH request was rejected for its method.
C19_Witness ==
    /\ OtherwiseValid
    /\ MethodOf(buffer) = "PATCH"
    /\ result = BadRequest("Invalid request method")

\* C20: a request that passes the checks of its first line is accepted
\* only with exactly one Host line among the header lines before the first
\* empty line, Host lines after it not counted: with one the validator goes
\* on to the terminator, with none or with two or more it returns the
\* error of the Host count.
C20_ExactlyOneHost ==
    (/\ result # NotCalled
     /\ from_utf8(buffer)
     /\ request_line_validation(first_line(buffer)) = Ok)
        => IF HostCount(buffer) = 1
             THEN result = Ok \/ CheckOf(result) = 7
             ELSE CheckOf(result) = 6

\* What the claim asks of a URI: it starts with a slash and holds no "..",
\* no null byte, no control character, no forbidden character and no
\* forbidden word
UriAcceptable(uri) ==
    /\ starts_with(uri, "/")
    /\ ~contains(uri, "..")
    /\ \A i \in 1 .. Len(uri) :
          /\ char(uri, i) # X00
          /\ char(uri, i) \notin ControlChars
          /\ char(uri, i) \notin forbidden_characters
    /\ \A w \in forbidden_words : ~contains(uri, w)

\* C21: validate_uri returns Ok exactly for the URIs that start with a
\* slash and hold no "..", null byte, control character, forbidden
\* character or forbidden word, and the invalid-URI error for the others;
\* the request for /../etc/passwd is rejected with that error and the
\* request for /index.html with one Host line and the terminator is
\* accepted.
C21_ValidateUri ==
    result # NotCalled =>
        IF buffer \in UriInputs
          THEN IF UriAcceptable(buffer) THEN result = Ok
               ELSE result = BadRequest("Invalid uri: " \o buffer)
        ELSE IF contains(buffer, "/../etc/passwd")
          THEN result = BadRequest("Invalid uri: /../etc/passwd")
        ELSE result = Ok

\* validate_uri has rejected a URI that starts with a slash for its "..".
C21_Witness ==
    /\ buffer = "/../etc/passwd"
    /\ result = BadRequest("Invalid uri: /../etc/passwd")

\* The buffer passes every check ahead of the terminator check
PassesEarlierChecks == buffer # "" /\ FailingChecks(buffer) \subseteq {7}

\* C22: a buffer that passes the checks ahead of the terminator check is
\* accepted exactly when its last four bytes are \r\n\r\n, and rejected
\* with "Request overflow" when they are not.
C22_Terminator ==
    (result # NotCalled /\ PassesEarlierChecks) =>
        IF ends_with(buffer, "\r\n\r\n") THEN result = Ok
        ELSE result = BadRequest("Request overflow")

\* A buffer that lacks nothing but the terminator has been rejected.
C22_Witness ==
    /\ PassesEarlierChecks
    /\ ~ends_with(buffer, "\r\n\r\n")
    /\ result = BadRequest("Request overflow")

\* The place of the first empty line of the emitted bytes
HeadEnd ==
    CHOOSE i \in 1 .. Len(emitted) :
        /\ SubSeq(emitted, i, i + 3) = "\r\n\r\n"
        /\ \A j \in 1 .. i - 1 : SubSeq(emitted, j, j + 3) # "\r\n\r\n"

\* The header lines of the emitted bytes
EmittedHeaders == Tail(lines(SubSeq(emitted, 1, HeadEnd - 1)))

\* The body of the emitted bytes
EmittedBody == SubSeq(emitted, HeadEnd + 4, Len(emitted))

\* The values of the emitted headers of a title
EmittedValues(title) ==
    {SubSeq(EmittedHeaders[i], Len(title) + 4, Len(EmittedHeaders[i])) :
        i \in {j \in 1 .. Len(EmittedHeaders) :
                  starts_with(EmittedHeaders[j], title \o " : ")}}

\* The emitted headers of a title, counted
EmittedCount(title) ==
    Cardinality({j \in 1 .. Len(EmittedHeaders) :
                   starts_with(EmittedHeaders[j], title \o " : ")})

\* C23: the bytes of to_bytes hold one Content-Length header, its value is
\* the length of the body that follows the empty line, and that body is
\* the gzip member of the stored body when compression is on and the
\* stored body when it is off.
C23_ContentLength ==
    emitted # NoBytes =>
        /\ EmittedCount("Content-Length") = 1
        /\ EmittedValues("Content-Length") = {ToString(Len(EmittedBody))}
        /\ EmittedBody = IF response.compression THEN gzip(response.body)
                         ELSE response.body

\* A body that is not empty has been emitted compressed, with its length.
C23_Witness ==
    /\ emitted # NoBytes
    /\ response.compression
    /\ response.body = IndexHtml
    /\ EmittedValues("Content-Length") = {ToString(Len(IndexHtml) + 20)}

\* The Content-Encoding headers of the Response, counted
ContentEncodings ==
    Cardinality({i \in 1 .. Len(response.headers) :
                   response.headers[i].title = "Content-Encoding"})

\* C24: a Response made by Response::new and any calls of compression(b)
\* holds one Content-Encoding header when its compression flag is true and
\* none when it is false; the bytes made of it hold the gzip member and
\* one Content-Encoding header, or the stored body and no such header.
C24_EncodingMatchesFlag ==
    response.type = "Response" =>
        /\ ContentEncodings = IF response.compression THEN 1 ELSE 0
        /\ emitted # NoBytes =>
              /\ EmittedCount("Content-Encoding") = ContentEncodings
              /\ EmittedValues("Content-Encoding") \subseteq {"gzip"}
              /\ EmittedCount("Content-Encoding") = 1
                    <=> EmittedBody = gzip(response.body)
              /\ EmittedCount("Content-Encoding") = 0
                    <=> EmittedBody = response.body

\* Response::default, which asks for compression, then compression(false):
\* the bytes hold no Content-Encoding header and the stored body.
C24_Witness ==
    /\ buffer = "GET / HTTP/1.1\r\nHost: test\r\nAccept-Encoding: deflate\r\n\r\n"
    /\ emitted # NoBytes
    /\ ~response.compression
    /\ ContentEncodings = 0
    /\ EmittedBody = IndexHtml

\* The request holds an Accept-Encoding header whose value names gzip
ListsGzip(b) ==
    LET hs == headers_of(lines(b))
    IN \E i \in 1 .. Len(hs) :
          /\ starts_with(to_lowercase(hs[i]), "accept-encoding:")
          /\ contains(to_lowercase(hs[i]), "gzip")

\* C25: for GET / with a Host header and no Accept-Encoding header the
\* bytes written hold the status 200, no Content-Encoding header and the
\* page as it is stored; and the Response of a request is compressed only
\* when the request holds an Accept-Encoding header that names gzip.
C25_CompressionOnlyOnRequest ==
    (buffer # NoReq /\ response.type = "Response") =>
        /\ (emitted # NoBytes /\ buffer = "GET / HTTP/1.1\r\nHost: test\r\n\r\n") =>
              /\ starts_with(emitted, "HTTP/1.1 200 OK\r\n")
              /\ EmittedCount("Content-Encoding") = 0
              /\ EmittedBody = IndexHtml
        /\ response.compression => ListsGzip(buffer)

\* The lines of the buffer between its first line and its first empty line
HeaderBlock ==
    LET ls == lines(buffer)
        empty == {i \in 2 .. Len(ls) : ls[i] = ""}
        last == IF empty = {} THEN Len(ls)
                ELSE (CHOOSE i \in empty : \A j \in empty : i <= j) - 1
    IN SubSeq(ls, 2, last)

\* The name of a header line: what stands before its colon
HeaderName(line) ==
    IF ~contains(line, ":") THEN line
    ELSE SubSeq(line, 1, (CHOOSE i \in 1 .. Len(line) :
                            /\ char(line, i) = ":"
                            /\ \A j \in 1 .. i - 1 : char(line, j) # ":") - 1)

\* The names of the allow-list
AllowList == {"Host", "User-Agent", "Accept", "Accept-Encoding", "Encoding"}

RECURSIVE Retained(_)
\* The lines of hs with a name of the allow-list, in their order
Retained(hs) ==
    IF hs = <<>> THEN <<>>
    ELSE (IF HeaderName(Head(hs)) \in AllowList THEN <<Head(hs)>> ELSE <<>>)
            \o Retained(Tail(hs))

C27_ParserNeverFails ==
    [][\A rec \in BagToSet(sessions), req \in Requests :
          (ReadData(rec, req) /\ Validated[req][overflow_checks].type # "panic") =>
              /\ Validated[req][overflow_checks] = Ok
              /\ Parsed[req].type # "panic"]_vars

\* A Terminate is waiting in the shutdown receiver of the task
TerminatePending(rec) ==
    \E i \in rec.shutdown_rx + 1 .. Len(chan) : chan[i] = "Terminate"

\* The task is gone and its permit is back
Closed(rec) ==
    /\ sessions' = sessions (-) SetToBag({rec})
    /\ connection_limit' = connection_limit + rec.permit

\* The task has gone on to pc without a look at its shutdown receiver
GoesOn(rec, pc) ==
    \E next \in BagToSet(sessions') :
        /\ next.pc = pc
        /\ next.shutdown_rx = rec.shutdown_rx
        /\ sessions' = (sessions (-) SetToBag({rec})) (+) SetToBag({next})

\* C28: when write_all has returned Ok the task closes if a Terminate is
\* pending and else reads again, in the same step; a read that returns
\* bytes and a dispatch go on to the next stage with the receiver as it
\* was, a Terminate pending or not.
C28_CheckAfterWrite ==
    [][\A rec \in BagToSet(sessions) :
          /\ WriteOk(rec) =>
                IF TerminatePending(rec) THEN Closed(rec)
                ELSE GoesOn(rec, "read")
          /\ \A req \in Requests :
                (ReadData(rec, req) /\ Parsed[req].type = "Request") =>
                    GoesOn(rec, "dispatch")
          /\ (Dispatch(rec) /\ ~DispatchPanic(rec)) => GoesOn(rec, "write")]_vars

\* Terminate has been broadcast while one task was writing and another
\* reading.
C28_Witness ==
    /\ mainPc = "shutdown_done"
    /\ \E rec \in BagToSet(sessions) : rec.pc = "write" /\ TerminatePending(rec)
    /\ \E rec \in BagToSet(sessions) : rec.pc = "read" /\ TerminatePending(rec)

\* Terminate has been broadcast
TerminateSent == \E i \in 1 .. Len(chan) : chan[i] = "Terminate"

\* C29: once Terminate has been broadcast, every session task is
\* eventually gone and no permit is held by a session, under the fairness
\* of FairSpec (a read returns or times out, the main task runs on).
C29_SessionsCloseAfterTerminate ==
    TerminateSent ~> (sessions = EmptyBag /\ PermitsOf(sessions) = 0
                        /\ connection_limit + permit = MAX_PERMITS)

\* Terminate has been broadcast while a session holds a permit.
C29_Witness ==
    /\ TerminateSent
    /\ mainPc = "shutdown_done"
    /\ \E rec \in BagToSet(sessions) : rec.permit = 1

\* C30: when Request::new returns an error for the bytes read, that error
\* is the last thing logged in the step, the task is gone with its permit
\* given back, and no task is ever at the handler or at the write with
\* bytes that Request::new did not turn into a Request.
C30_ParseFailureCloses ==
    [][/\ \A rec \in BagToSet(sessions), req \in Requests :
             (ReadData(rec, req) /\ Parsed[req].type = "ConnectionError"
                /\ Validated[req][overflow_checks].type # "panic") =>
                  /\ log' # <<>>
                  /\ log'[Len(log')] = "parse"
                  /\ Closed(rec)
       /\ \A next \in BagToSet(sessions') :
             next.pc \in {"dispatch", "write"} => Parsed[next.req].type = "Request"]_vars

\* The last step logged the error of Request::new and a task is gone.
C30_Witness ==
    /\ log # <<>>
    /\ log[Len(log)] = "parse"
    /\ mainPc = "select"

\* C31: when write_all returns an error the step logs it and the task is
\* gone, its permit given back: the task does not read again.
C31_WriteFailureCloses ==
    [][\A rec \in BagToSet(sessions) :
          WriteErr(rec) => /\ log' # <<>>
                           /\ log'[1] = "write"
                           /\ Closed(rec)]_vars

\* C32: with one Terminate broadcast, a task that subscribed before it is
\* gone as soon as a write_all of its returns, with Ok or with an error:
\* it writes at most one response after the broadcast and does not read
\* again.
C32_OneMoreResponse ==
    [][/\ Len(chan) <= 1
       /\ \A rec \in BagToSet(sessions) :
             (TerminatePending(rec) /\ (WriteOk(rec) \/ WriteErr(rec))) =>
                 Closed(rec)]_vars

\* One Terminate is pending for a task that is at the handler.
C32_Witness ==
    /\ Len(chan) = 1
    /\ \E rec \in BagToSet(sessions) :
          rec.pc = "dispatch" /\ TerminatePending(rec)

\* The accept loop is inside listener.accept() or between its return and
\* the spawn
Accepting == accPc \in {"accept", "sleep", "accepted"}

\* C33: the accept loop is inside accept(), or holds an accepted
\* connection, only with the permit it acquired at the top of the
\* iteration; with 5 live session tasks it is in neither place; and the
\* spawn gives the new task that permit without taking one.
C33_AcceptHoldsPermit ==
    [][/\ Accepting => permit = 1
       /\ Accepting' => permit' = 1
       /\ BagCardinality(sessions) = MAX_PERMITS => ~Accepting
       /\ BagCardinality(sessions') = MAX_PERMITS => ~Accepting'
       /\ AcceptOk => permit = 1 /\ accPc' = "accepted"
       /\ Spawn => /\ permit = 1 /\ permit' = 0
                   /\ connection_limit' = connection_limit
                   /\ \E rec \in BagToSet(sessions') :
                         /\ rec.permit = 1
                         /\ sessions' = sessions (+) SetToBag({rec})]_vars

\* The fifth connection has been accepted with the last permit.
C33_Witness ==
    /\ accPc = "accepted"
    /\ permit = 1
    /\ connection_limit = 0
    /\ BagCardinality(sessions) = MAX_PERMITS - 1

\* C34: no task is at the handler, or writes the response of one, for
\* bytes whose method token is not GET, POST, PUT, PATCH or DELETE.
C34_UnknownMethodNotDispatched ==
    \A rec \in BagToSet(sessions) :
        rec.pc \in {"dispatch", "write"} =>
            split_whitespace(first_line(rec.req))[1] \in HttpMethods

\* C35: the bytes of to_bytes hold one Content-Type header and its value
\* is the text of the content_type field of the Response.
C35_ContentTypeHeader ==
    (emitted # NoBytes /\ response.type = "Response") =>
        /\ EmittedCount("Content-Type") = 1
        /\ EmittedValues("Content-Type") = {ContentType[response.content_type]}

\* C36: in the server as main wires it initiate_shutdown does not panic:
\* when main is about to call it the channel has a receiver, with session
\* tasks or without, and main is never left by that panic.
C36_ShutdownNeverPanics ==
    /\ ~panicked
    /\ mainPc # "panicked"
    /\ mainPc = "signalled" => ReceiverCount >= 1

\* initiate_shutdown has sent Terminate with no session task alive.
C36_Witness ==
    /\ mainPc = "shutdown_done"
    /\ sessions = EmptyBag
    /\ chan = <<"Terminate">>
    /\ is_shutdown

\* C37: a == b holds exactly when a and b are the same variant, whatever
\* their messages.
C37_EqualityByVariant ==
    equal # "none" =>
        (equal = "true" <=> self_error.type = other_error.type)

\* handle_request came to check_overflow: it returned what check_overflow
\* returns
ReachedCheckOverflow ==
    result \in {Ok, BadRequest("Request overflow"),
                Panic("slice index out of range")}

\* C38: when handle_request comes to check_overflow the buffer has four
\* bytes or more, and handle_request does not panic in the slice of the
\* last four bytes for any buffer, the empty one and the others of fewer
\* than four bytes included.
C38_SliceInBounds ==
    result # NotCalled =>
        /\ result # Panic("slice index out of range")
        /\ ReachedCheckOverflow => Len(buffer) >= 4
        /\ Len(buffer) < 4 => result.type = "BadRequest"

\* handle_request has returned an error for the empty buffer.
C38_Witness ==
    /\ buffer = ""
    /\ result = BadRequest("Missing request line")

====
